---- MODULE Spec2Model ----
(***************************************************************************)
(* Crackers Shop API (src/main.py, src/schemas.py): a FastAPI service over *)
(* two document collections, "crackerproduct" and "order".                 *)
(*                                                                         *)
(* Conventions of the model                                                *)
(*   - a JSON object / Python dict is a record; a field that the client    *)
(*     leaves out is simply not in the record's DOMAIN;                    *)
(*   - an Optional value is Null (Python None) or Some(v);                 *)
(*   - money and ratings are counted in hundredths (2.99 is 299, 4.5 is    *)
(*     450), so the bounds ge=0 / le=5 read >= 0 / <= 500;                 *)
(*   - an identifier string is a sequence of one-character strings, the    *)
(*     store's native key (bson ObjectId) a sequence of OidLen nibbles.    *)
(***************************************************************************)
EXTENDS Integers, Sequences, FiniteSets, TLC

VARIABLES
    dbUp,       \* database.db is not None (fixed when the process starts)
    products,   \* collection "crackerproduct", in insertion order
    orders,     \* collection "order", in insertion order
    last,       \* the last request handled in full and its response
    posted,     \* history: <<id, payload>> of every successful POST /api/crackers
    placed,     \* history: <<order_id, payload>> of every successful POST /api/orders
    pc,         \* per worker thread: its position inside GET /api/crackers
    cnt,        \* per worker thread: the local variable count of seed_crackers_if_empty
    seedRuns,   \* history: how many times a worker read count == 0
    overlap     \* history: a worker read the count while another one was seeding

vars == <<dbUp, products, orders, last, posted, placed, pc, cnt, seedRuns, overlap>>

(***************************************************************************)
(* Bounds of the model.                                                    *)
(***************************************************************************)
MaxPosts == 2        \* successful POST /api/crackers per run
MaxNewOrders == 2    \* successful POST /api/orders per run
FirstId == 10        \* the first ObjectId the store hands out
NumWorkers == 2      \* concurrent GET /api/crackers requests (SpecRace)

(***************************************************************************)
(* Program constants.                                                      *)
(***************************************************************************)
DefaultLimit == 50       \* list_orders(limit: int = 50)
DefaultRating == 450     \* rating: Optional[float] = Field(4.5, ...)
MaxRating == 500         \* le=5
MaxCollections == 10     \* collections[:10]
OidLen == 24             \* hex digits of an ObjectId string

Null == <<>>
Some(v) == <<v>>

Min(a, b) == IF a <= b THEN a ELSE b

Take(seq, n) == SubSeq(seq, 1, Min(n, Len(seq)))

Range(seq) == {seq[i] : i \in 1..Len(seq)}

(***************************************************************************)
(* Identifiers: bson.ObjectId(str) and str(ObjectId).                      *)
(***************************************************************************)
HexDigits == <<"0", "1", "2", "3", "4", "5", "6", "7", "8", "9", "a", "b", "c", "d", "e", "f">>

HexUpper == <<"0", "1", "2", "3", "4", "5", "6", "7", "8", "9", "A", "B", "C", "D", "E", "F">>

HexChars == Range(HexDigits) \cup Range(HexUpper)

IsHexChar(c) == c \in HexChars

HexVal(c) == CHOOSE v \in 0..15 : HexDigits[v + 1] = c \/ HexUpper[v + 1] = c

\* ObjectId.is_valid on a str: exactly 24 hexadecimal digits, in either case
IsValidOid(s) == Len(s) = OidLen /\ \A i \in 1..Len(s) : IsHexChar(s[i])

\* ObjectId(s) for a valid s: the key itself
ParseOid(s) == [i \in 1..OidLen |-> HexVal(s[i])]

\* str(oid): 24 lower-case hexadecimal digits
OidStr(oid) == [i \in 1..OidLen |-> HexDigits[oid[i] + 1]]

\* the n-th key the store generates in collection number c; keys are unique
\* across collections
NewOid(c, n) ==
    [i \in 1..OidLen |->
        IF i = OidLen THEN n % 16
        ELSE IF i = OidLen - 1 THEN (n \div 16) % 16
        ELSE IF i = 1 THEN c
        ELSE 0]

\* the key of the next document inserted into a collection
ProductOid(coll) == NewOid(1, FirstId + Len(coll))

OrderOid(coll) == NewOid(2, FirstId + Len(coll))

(***************************************************************************)
(* Schemas (src/schemas.py).                                               *)
(***************************************************************************)
\* pydantic EmailStr: one "@", a non-empty local part, a dotted domain
ValidEmail(e) ==
    LET ats == {i \in 1..Len(e) : e[i] = "@"}
    IN  /\ Cardinality(ats) = 1
        /\ LET a == CHOOSE i \in ats : TRUE
           IN  /\ a > 1
               /\ \E d \in (a + 2)..(Len(e) - 1) : e[d] = "."

\* a CrackerProduct whose rating lacks le=5
ValidCrackerProductNoUpper(p) ==
    /\ {"name", "price", "category"} \subseteq DOMAIN p
    /\ p.price >= 0
    /\ ("rating" \in DOMAIN p) => (p.rating = Null \/ p.rating[1] >= 0)

\* class CrackerProduct: required name, price >= 0, category; rating None or in [0, 5]
ValidCrackerProduct(p) ==
    /\ {"name", "price", "category"} \subseteq DOMAIN p
    /\ p.price >= 0
    /\ ("rating" \in DOMAIN p) =>
          (p.rating = Null \/ (p.rating[1] >= 0 /\ p.rating[1] <= MaxRating))

\* a CrackerProduct whose rating defaults to None
CrackerProductModelNoRating(p) ==
    [name        |-> p.name,
     description |-> IF "description" \in DOMAIN p THEN p.description ELSE Null,
     price       |-> p.price,
     category    |-> p.category,
     image       |-> IF "image" \in DOMAIN p THEN p.image ELSE Null,
     in_stock    |-> IF "in_stock" \in DOMAIN p THEN p.in_stock ELSE TRUE,
     rating      |-> IF "rating" \in DOMAIN p THEN p.rating ELSE Null]

\* the validated CrackerProduct as a dict (model_dump): unset fields take their defaults
CrackerProductModel(p) ==
    [name        |-> p.name,
     description |-> IF "description" \in DOMAIN p THEN p.description ELSE Null,
     price       |-> p.price,
     category    |-> p.category,
     image       |-> IF "image" \in DOMAIN p THEN p.image ELSE Null,
     in_stock    |-> IF "in_stock" \in DOMAIN p THEN p.in_stock ELSE TRUE,
     rating      |-> IF "rating" \in DOMAIN p THEN p.rating ELSE Some(DefaultRating)]

\* class OrderItem: price >= 0, quantity >= 1
ValidOrderItem(it) ==
    /\ {"product_id", "name", "price", "quantity"} \subseteq DOMAIN it
    /\ it.price >= 0
    /\ it.quantity >= 1

\* class CustomerInfo: phone is the only optional field
ValidCustomerInfo(c) ==
    /\ {"name", "email", "address", "city", "pincode"} \subseteq DOMAIN c
    /\ ValidEmail(c.email)

CustomerInfoModel(c) ==
    [name    |-> c.name,
     email   |-> c.email,
     phone   |-> IF "phone" \in DOMAIN c THEN c.phone ELSE Null,
     address |-> c.address,
     city    |-> c.city,
     pincode |-> c.pincode]

\* class Order: items may be empty, total_amount >= 0, status is any string
ValidOrder(o) ==
    /\ {"items", "customer", "total_amount"} \subseteq DOMAIN o
    /\ \A i \in 1..Len(o.items) : ValidOrderItem(o.items[i])
    /\ ValidCustomerInfo(o.customer)
    /\ o.total_amount >= 0

\* an Order whose status defaults to "received"
OrderModelReceived(o) ==
    [items        |-> o.items,
     customer     |-> CustomerInfoModel(o.customer),
     total_amount |-> o.total_amount,
     status       |-> IF "status" \in DOMAIN o THEN o.status ELSE "received",
     notes        |-> IF "notes" \in DOMAIN o THEN o.notes ELSE Null]

OrderModel(o) ==
    [items        |-> o.items,
     customer     |-> CustomerInfoModel(o.customer),
     total_amount |-> o.total_amount,
     status       |-> IF "status" \in DOMAIN o THEN o.status ELSE "pending",
     notes        |-> IF "notes" \in DOMAIN o THEN o.notes ELSE Null]

\* GET /schema: the two models; of each schema the model keeps the required fields
SchemaList ==
    <<[name |-> "CrackerProduct", schema |-> [required |-> {"name", "price", "category"}]],
      [name |-> "Order", schema |-> [required |-> {"items", "customer", "total_amount"}]]>>

(***************************************************************************)
(* The four sample products of seed_crackers_if_empty.                     *)
(***************************************************************************)
samples ==
    <<[name        |-> "Sparklers Pack (10)",
       description |-> Some("Bright, long-lasting sparklers perfect for celebrations."),
       price       |-> 299,
       category    |-> "Sparklers",
       image       |-> Some("https://images.unsplash.com/photo-1519681393784-d120267933ba?q=80&w=800&auto=format&fit=crop"),
       in_stock    |-> TRUE,
       rating      |-> Some(480)],
      [name        |-> "Flower Pots (Medium)",
       description |-> Some("Colorful fountain with safe height and vibrant effects."),
       price       |-> 450,
       category    |-> "Flower Pots",
       image       |-> Some("https://images.unsplash.com/photo-1508057198894-247b23fe5ade?q=80&w=800&auto=format&fit=crop"),
       in_stock    |-> TRUE,
       rating      |-> Some(460)],
      [name        |-> "Ground Spinners (5)",
       description |-> Some("Fun spinning wheels with multi-color trails."),
       price       |-> 325,
       category    |-> "Ground Spinners",
       image       |-> Some("https://images.unsplash.com/photo-1492684223066-81342ee5ff30?q=80&w=800&auto=format&fit=crop"),
       in_stock    |-> TRUE,
       rating      |-> Some(440)],
      [name        |-> "Sky Rockets (3)",
       description |-> Some("High-flying rockets with beautiful bursts."),
       price       |-> 799,
       category    |-> "Rockets",
       image       |-> Some("https://images.unsplash.com/photo-1504384308090-c894fdcc538d?q=80&w=800&auto=format&fit=crop"),
       in_stock    |-> TRUE,
       rating      |-> Some(470)]>>

(***************************************************************************)
(* Request inputs.                                                         *)
(***************************************************************************)
ProductPayloads ==
    { [name |-> "Atom Bomb", price |-> 0, category |-> "Bombs"],
      [name |-> "Mini Sparklers", description |-> Some("Small pack"), price |-> 150,
       category |-> "sparklers", image |-> Null, in_stock |-> FALSE,
       rating |-> Some(MaxRating)],
      [name |-> "Refund", price |-> -1, category |-> "Bombs"],
      [name |-> "Overrated", price |-> 100, category |-> "Bombs", rating |-> Some(MaxRating + 1)],
      [name |-> "Underrated", price |-> 100, category |-> "Bombs", rating |-> Some(-1)],
      [price |-> 100, category |-> "Bombs"] }

\* the category query parameter: absent, empty, and some values
CategoryQueries == {Null, Some(""), Some("Sparklers"), Some("sparklers"), Some("Crackers")}

SampleItem == [product_id |-> "x", name |-> "Sparklers Pack (10)", price |-> 299, quantity |-> 2]

SampleCustomer ==
    [name |-> "A", email |-> <<"a", "@", "b", ".", "c", "o", "m">>,
     address |-> "1 St", city |-> "C", pincode |-> "00000"]

SampleOrder == [items |-> <<SampleItem>>, customer |-> SampleCustomer, total_amount |-> 598]

OrderPayloads ==
    { SampleOrder,
      [items |-> <<SampleItem>>, customer |-> SampleCustomer, total_amount |-> 598,
       status |-> "shipped", notes |-> Some("ring twice")],
      [items |-> <<[SampleItem EXCEPT !.quantity = 0]>>, customer |-> SampleCustomer,
       total_amount |-> 0],
      [items |-> <<SampleItem>>,
       customer |-> [SampleCustomer EXCEPT !.email = <<"a", "b", ".", "c", "o", "m">>],
       total_amount |-> 598],
      [items |-> <<SampleItem>>, customer |-> SampleCustomer, total_amount |-> -1] }

\* the limit query parameter: absent, or a positive count
LimitQueries == {Null, Some(1), Some(2), Some(DefaultLimit + 1)}

\* identifier strings a client may send: ids the store has handed out or will hand
\* out next, the upper-case spelling of each, and strings that are no ObjectId
UpperCase(s) == [i \in 1..Len(s) |-> IF IsHexChar(s[i]) THEN HexUpper[HexVal(s[i]) + 1] ELSE s[i]]

MalformedIds ==
    { <<"a", "b", "c">>,
      [i \in 1..(OidLen - 1) |-> "0"],
      [i \in 1..(OidLen + 1) |-> "0"],
      [i \in 1..OidLen |-> IF i = 1 THEN "g" ELSE "0"] }

IdQueries ==
    LET known == {OidStr(d._id) : d \in Range(products)}
        other == {OidStr(ProductOid(products))} \cup {OidStr(orders[i]._id) : i \in {Len(orders)} \ {0}}
    IN  known \cup {UpperCase(s) : s \in known} \cup other \cup MalformedIds

(***************************************************************************)
(* The document store adapter (database.py: db, create_document,           *)
(* get_documents) and the pymongo calls main.py makes on db directly.      *)
(***************************************************************************)
\* the adapter's failure when db is None
Unavailable == [status |-> 500, error |-> "store_unavailable", body |-> Null]

Ok(body) == [status |-> 200, error |-> "none", body |-> body]

\* create(collection, document): one insert under a fresh key
InsertOne(coll, doc, oid) == Append(coll, [_id |-> oid] @@ doc)

\* a filter document matches on equality of every field it names
Matches(d, flt) == \A k \in DOMAIN flt : k \in DOMAIN d /\ d[k] = flt[k]

\* find_many(collection, filter, limit): the matching documents in insertion
\* order, at most limit of them when a limit is given
GetDocuments(coll, flt, limit) ==
    LET Test(d) == Matches(d, flt)
        found == SelectSeq(coll, Test)
    IN  IF limit = Null THEN found ELSE Take(found, limit[1])

\* db[...].count_documents({})
CountDocuments(coll) == Len(coll)

\* db[...].find_one({"_id": oid}): the document or None
FindOne(coll, oid) ==
    LET hits == {i \in 1..Len(coll) : coll[i]._id = oid}
    IN  IF hits = {} THEN Null ELSE Some(coll[CHOOSE i \in hits : \A j \in hits : i <= j])

\* db.list_collection_names(): a collection exists once it holds a document
ListCollectionNames ==
    (IF Len(products) > 0 THEN <<"crackerproduct">> ELSE <<>>) \o
    (IF Len(orders) > 0 THEN <<"order">> ELSE <<>>)

(***************************************************************************)
(* Helpers of main.py.                                                     *)
(***************************************************************************)
\* serialize_doc: _id is renamed to id and stringified, the rest passes through
SerializeDoc(doc) ==
    IF "_id" \in DOMAIN doc
    THEN [f \in (DOMAIN doc \ {"_id"}) \cup {"id"} |->
             IF f = "id" THEN OidStr(doc._id) ELSE doc[f]]
    ELSE doc

SerializeAll(docs) == [i \in 1..Len(docs) |-> SerializeDoc(docs[i])]

\* for s in samples: create_document("crackerproduct", s), the first k samples
RECURSIVE InsertSamples(_, _)
InsertSamples(coll, k) ==
    IF k = 0 THEN coll
    ELSE LET sofar == InsertSamples(coll, k - 1)
         IN  InsertOne(sofar, samples[k], ProductOid(sofar))

\* a seeding that forgets to test the count
ShouldSeedAlways(count) == TRUE

\* if count == 0:
ShouldSeed(count) == count = 0

\* a seeding that tests count <= 1 in place of count == 0
SeedCrackersIfFew(coll) ==
    IF ~dbUp THEN coll
    ELSE IF CountDocuments(coll) <= 1 THEN InsertSamples(coll, Len(samples))
    ELSE coll

\* seed_crackers_if_empty, run without interruption: the collection afterwards
SeedCrackersIfEmpty(coll) ==
    IF ~dbUp THEN coll
    ELSE IF ShouldSeed(CountDocuments(coll)) THEN InsertSamples(coll, Len(samples))
    ELSE coll

\* flt = {"category": category} if category else {}
CategoryFilter(category) ==
    IF category # Null /\ category[1] # "" THEN [category |-> category[1]] ELSE <<>>

(***************************************************************************)
(* Responses of the handlers, as functions of the store.                   *)
(***************************************************************************)
\* list_crackers after the seeding call
ListCrackersResponse(coll, category) ==
    IF ~dbUp THEN Unavailable
    ELSE Ok(SerializeAll(GetDocuments(coll, CategoryFilter(category), Null)))

\* get_cracker: any exception inside the try block is answered 400
GetCrackerResponse(coll, product_id) ==
    IF ~dbUp \/ ~IsValidOid(product_id)
    THEN [status |-> 400, error |-> "malformed_id", body |-> Null]
    ELSE LET obj == FindOne(coll, ParseOid(product_id))
         IN  IF obj = Null
             THEN [status |-> 404, error |-> "not_found", body |-> Null]
             ELSE Ok(SerializeDoc(obj[1]))

\* a list_orders that applies no limit unless the client sends one
ListOrdersResponseUnlimited(coll, limit) ==
    IF ~dbUp THEN Unavailable
    ELSE Ok(SerializeAll(GetDocuments(coll, <<>>, limit)))

\* list_orders
ListOrdersResponse(coll, limit) ==
    IF ~dbUp THEN Unavailable
    ELSE Ok(SerializeAll(GetDocuments(coll, <<>>,
                IF limit = Null THEN Some(DefaultLimit) ELSE limit)))

\* FastAPI's answer to a body that fails validation; the handler is not entered
Invalid == [status |-> 422, error |-> "validation", body |-> Null]

\* test_database
TestDatabaseResponse(listFails, envUrl, envName) ==
    Ok([backend |-> "Running",
        database |-> IF ~dbUp THEN "Available but not initialized"
                     ELSE IF listFails THEN "Connected but Error"
                     ELSE "Connected & Working",
        database_url |-> IF envUrl THEN "Set" ELSE "Not Set",
        database_name |-> IF envName THEN "Set" ELSE "Not Set",
        connection_status |-> IF dbUp THEN "Connected" ELSE "Not Connected",
        collections |-> IF dbUp /\ ~listFails
                        THEN Take(ListCollectionNames, MaxCollections) ELSE <<>>])

Reply(op, arg, r) == [op |-> op, arg |-> arg, status |-> r.status, error |-> r.error, body |-> r.body]

(***************************************************************************)
(* Initial states: the process has started, with or without its store.     *)
(***************************************************************************)
Workers == 1..NumWorkers

RECURSIVE EarlierOrders(_)
EarlierOrders(n) ==
    IF n = 0 THEN <<>>
    ELSE LET sofar == EarlierOrders(n - 1)
         IN  InsertOne(sofar, OrderModel(SampleOrder), OrderOid(sofar))

Idle == [at |-> "idle", k |-> 0]

InitWith(initialOrders) ==
    /\ dbUp \in BOOLEAN
    /\ products = <<>>
    /\ orders \in initialOrders
    /\ last = [op |-> "none"]
    /\ posted = {}
    /\ placed = {}
    /\ pc = [w \in Workers |-> Idle]
    /\ cnt = [w \in Workers |-> 0]
    /\ seedRuns = 0
    /\ overlap = FALSE

Init == InitWith({<<>>})

raceVars == <<pc, cnt, seedRuns, overlap>>

(***************************************************************************)
(* The handlers, each run from request to response without interruption.   *)
(***************************************************************************)
\* GET /
ReadRoot ==
    /\ last' = Reply("read_root", Null, Ok([message |-> "Crackers Shop API is running"]))
    /\ UNCHANGED <<dbUp, products, orders, posted, placed, raceVars>>

\* GET /api/hello
Hello ==
    /\ last' = Reply("hello", Null, Ok([message |-> "Hello from the backend API!"]))
    /\ UNCHANGED <<dbUp, products, orders, posted, placed, raceVars>>

\* GET /test
TestDatabase ==
    /\ \E listFails \in {f \in BOOLEAN : f => dbUp}, envUrl \in BOOLEAN, envName \in BOOLEAN :
          last' = Reply("test_database", Null, TestDatabaseResponse(listFails, envUrl, envName))
    /\ UNCHANGED <<dbUp, products, orders, posted, placed, raceVars>>

\* GET /schema
GetSchema ==
    /\ last' = Reply("get_schema", Null, Ok(SchemaList))
    /\ UNCHANGED <<dbUp, products, orders, posted, placed, raceVars>>

\* GET /api/crackers
ListCrackers ==
    \E category \in CategoryQueries :
        LET seeded == SeedCrackersIfEmpty(products)
        IN  /\ products' = seeded
            /\ last' = Reply("list_crackers", category, ListCrackersResponse(seeded, category))
            /\ UNCHANGED <<dbUp, orders, posted, placed, raceVars>>

\* POST /api/crackers
CreateCracker ==
    \E product \in ProductPayloads :
        IF ~ValidCrackerProduct(product)
        THEN /\ last' = Reply("create_cracker", product, Invalid)
             /\ UNCHANGED <<dbUp, products, orders, posted, placed, raceVars>>
        ELSE IF ~dbUp
        THEN /\ last' = Reply("create_cracker", product, Unavailable)
             /\ UNCHANGED <<dbUp, products, orders, posted, placed, raceVars>>
        ELSE /\ Cardinality(posted) < MaxPosts
             /\ products' = InsertOne(products, CrackerProductModel(product), ProductOid(products))
             /\ last' = Reply("create_cracker", product, Ok([id |-> OidStr(ProductOid(products))]))
             /\ posted' = posted \cup {[id |-> OidStr(ProductOid(products)), payload |-> product]}
             /\ UNCHANGED <<dbUp, orders, placed, raceVars>>

\* a get_cracker that calls find_one_and_delete in place of find_one
GetCrackerAndDelete ==
    /\ \E product_id \in IdQueries :
          /\ last' = Reply("get_cracker", product_id, GetCrackerResponse(products, product_id))
          /\ products' = IF dbUp /\ IsValidOid(product_id)
                         THEN LET Keep(d) == d._id # ParseOid(product_id)
                              IN  SelectSeq(products, Keep)
                         ELSE products
    /\ UNCHANGED <<dbUp, orders, posted, placed, raceVars>>

\* GET /api/crackers/{product_id}
GetCracker ==
    /\ \E product_id \in IdQueries :
          last' = Reply("get_cracker", product_id, GetCrackerResponse(products, product_id))
    /\ UNCHANGED <<dbUp, products, orders, posted, placed, raceVars>>

\* POST /api/orders
CreateOrder ==
    \E order \in OrderPayloads :
        IF ~ValidOrder(order)
        THEN /\ last' = Reply("create_order", order, Invalid)
             /\ UNCHANGED <<dbUp, products, orders, posted, placed, raceVars>>
        ELSE IF ~dbUp
        THEN /\ last' = Reply("create_order", order, Unavailable)
             /\ UNCHANGED <<dbUp, products, orders, posted, placed, raceVars>>
        ELSE /\ Cardinality(placed) < MaxNewOrders
             /\ orders' = InsertOne(orders, OrderModel(order), OrderOid(orders))
             /\ last' = Reply("create_order", order,
                              Ok([order_id |-> OidStr(OrderOid(orders)), status |-> "received"]))
             /\ placed' = placed \cup {[order_id |-> OidStr(OrderOid(orders)), payload |-> order]}
             /\ UNCHANGED <<dbUp, products, posted, raceVars>>

\* GET /api/orders
ListOrders ==
    /\ \E limit \in LimitQueries :
          last' = Reply("list_orders", limit, ListOrdersResponse(orders, limit))
    /\ UNCHANGED <<dbUp, products, orders, posted, placed, raceVars>>

Next ==
    \/ ReadRoot
    \/ Hello
    \/ TestDatabase
    \/ GetSchema
    \/ ListCrackers
    \/ CreateCracker
    \/ GetCracker
    \/ CreateOrder
    \/ ListOrders

Spec == Init /\ [][Next]_vars

(***************************************************************************)
(* The order endpoints over a store that outlives the process: it starts   *)
(* with no order or with DefaultLimit - 1 orders of earlier runs.          *)
(***************************************************************************)
InitOrders == InitWith({EarlierOrders(0), EarlierOrders(DefaultLimit - 1)})

NextOrders ==
    \/ CreateOrder
    \/ ListOrders

SpecOrders == InitOrders /\ [][NextOrders]_vars

(***************************************************************************)
(* GET /api/crackers served by concurrent worker threads (FastAPI runs a   *)
(* def endpoint in a thread pool): the store calls of one request          *)
(* interleave with those of the others. Each worker serves one request.    *)
(***************************************************************************)
InitRace == InitWith({<<>>})

\* seed_crackers_if_empty up to the test of count
SeedCount(w) ==
    /\ pc[w].at = "idle"
    /\ IF ~dbUp
       THEN /\ pc' = [pc EXCEPT ![w] = [at |-> "find", k |-> 0]]
            /\ UNCHANGED <<cnt, seedRuns, overlap>>
       ELSE LET count == CountDocuments(products)
            IN  /\ cnt' = [cnt EXCEPT ![w] = count]
                /\ overlap' = (overlap \/ \E v \in Workers \ {w} : pc[v].at = "seed")
                /\ IF ShouldSeed(count)
                   THEN /\ pc' = [pc EXCEPT ![w] = [at |-> "seed", k |-> 0]]
                        /\ seedRuns' = seedRuns + 1
                   ELSE /\ pc' = [pc EXCEPT ![w] = [at |-> "find", k |-> 0]]
                        /\ UNCHANGED seedRuns
    /\ UNCHANGED <<dbUp, products, orders, last, posted, placed>>

\* one turn of the loop: create_document("crackerproduct", s)
SeedInsert(w) ==
    /\ pc[w].at = "seed"
    /\ products' = InsertOne(products, samples[pc[w].k + 1], ProductOid(products))
    /\ pc' = [pc EXCEPT ![w] = IF pc[w].k + 1 = Len(samples)
                               THEN [at |-> "find", k |-> 0]
                               ELSE [at |-> "seed", k |-> pc[w].k + 1]]
    /\ UNCHANGED <<dbUp, orders, last, posted, placed, cnt, seedRuns, overlap>>

\* the rest of list_crackers: get_documents and the response
ListFind(w) ==
    /\ pc[w].at = "find"
    /\ \E category \in {Null, Some("Sparklers")} :
          last' = Reply("list_crackers", category, ListCrackersResponse(products, category))
    /\ pc' = [pc EXCEPT ![w] = [at |-> "done", k |-> 0]]
    /\ UNCHANGED <<dbUp, products, orders, posted, placed, cnt, seedRuns, overlap>>

NextRace ==
    \/ \E w \in Workers : SeedCount(w)
    \/ \E w \in Workers : SeedInsert(w)
    \/ \E w \in Workers : ListFind(w)

SpecRace == InitRace /\ [][NextRace]_vars

(***************************************************************************)
(* Properties.                                                             *)
(***************************************************************************)
IsPrefix(s, t) == Len(s) <= Len(t) /\ SubSeq(t, 1, Len(s)) = s

WithoutKey(d, key) == [f \in DOMAIN d \ {key} |-> d[f]]

ProductFields == {"name", "description", "price", "category", "image", "in_stock", "rating"}

\* the positions of a listing that hold the document with this id
Holding(body, id) == {i \in 1..Len(body) : body[i].id = id}

\* a listing that is exactly the four samples, in order, under distinct ids
FourSamples(body) ==
    /\ Len(body) = 4
    /\ \A k \in 1..4 : WithoutKey(body[k], "id") = samples[k]
    /\ \A j, k \in 1..4 : body[j].id = body[k].id => j = k

\* C1: with requests handled one after another, GET /api/crackers inserts the
\* four samples if and only if the collection is empty when it is handled: an
\* unfiltered listing of a store nobody has posted to is exactly the four
\* samples, once each, on the first call and on every later one, and a call
\* that finds a product in the collection inserts nothing.
C1_SeedIffEmpty ==
    /\ []((last.op = "list_crackers" /\ last.status = 200 /\ last.arg = Null /\ posted = {})
             => FourSamples(last.body))
    /\ [][(last'.op = "list_crackers" /\ dbUp) =>
             IF Len(products) = 0
             THEN /\ Len(products') = 4
                  /\ \A k \in 1..4 : WithoutKey(products'[k], "_id") = samples[k]
             ELSE products' = products]_vars

C1_Witness ==
    /\ last.op = "list_crackers" /\ last.status = 200 /\ last.arg = Null
    /\ posted = {}
    /\ Len(products) = 4 /\ Len(last.body) = 4

\* the defaults of the optional product fields
C2_Defaults == [description |-> Null, image |-> Null, in_stock |-> TRUE, rating |-> Some(450)]

\* C2: the identifier returned by POST /api/crackers for a valid payload
\* retrieves, at any later time, a document with that id whose product fields
\* are those of the payload, unset optional fields taking their defaults.
C2_RoundTrip ==
    \A e \in posted :
        LET r == GetCrackerResponse(products, e.id)
        IN  /\ r.status = 200
            /\ DOMAIN r.body = ProductFields \cup {"id"}
            /\ r.body.id = e.id
            /\ \A f \in ProductFields :
                  r.body[f] = IF f \in DOMAIN e.payload THEN e.payload[f] ELSE C2_Defaults[f]

C2_Witness ==
    \E e \in posted :
        /\ "rating" \notin DOMAIN e.payload
        /\ last.op = "get_cracker" /\ last.arg = e.id /\ last.status = 200
        /\ last.body.rating = Some(450)
        /\ Len(products) > 4
        /\ Cardinality(posted) > 1

\* a payload with price < 0 or a rating outside [0, 5]
OutOfRange(p) ==
    \/ "price" \in DOMAIN p /\ p.price < 0
    \/ "rating" \in DOMAIN p /\ p.rating # Null /\ (p.rating[1] < 0 \/ p.rating[1] > 500)

\* C3: POST /api/crackers with price < 0 or with a rating outside [0, 5] ends
\* in a validation error and leaves the product collection as it was.
C3_RejectOutOfRange ==
    [][(last'.op = "create_cracker" /\ OutOfRange(last'.arg)) =>
          (last'.error = "validation" /\ products' = products /\ orders' = orders)]_vars

C3_Witness ==
    /\ last.op = "create_cracker" /\ last.error = "validation"
    /\ "rating" \in DOMAIN last.arg /\ last.arg.rating # Null /\ last.arg.rating[1] > 500
    /\ dbUp /\ Len(products) > 0

\* C4: GET /api/crackers/{id} answers 400 exactly when the id cannot be parsed
\* into a key, 404 exactly when the id is well-formed and no product has that
\* key, and neither for the well-formed id of an existing product.
C4_ErrorKinds ==
    last.op = "get_cracker" =>
        LET wellFormed == IsValidOid(last.arg)
            exists == wellFormed /\ \E i \in 1..Len(products) : products[i]._id = ParseOid(last.arg)
        IN  /\ (last.status = 400) <=> ~wellFormed
            /\ (last.status = 404) <=> (wellFormed /\ ~exists)
            /\ exists => last.status = 200

\* the position of the order with this id in the order collection
OrderPosition(id) == {i \in 1..Len(orders) : OidStr(orders[i]._id) = id}

\* C5, as claimed, for an available store: POST /api/orders of a valid payload
\* without a status returns a non-empty order_id and "received", and GET
\* /api/orders with the default limit then includes that order as "pending".
C5_PlacedOrderListed ==
    /\ (dbUp /\ last.op = "create_order" /\ ValidOrder(last.arg)) =>
          (last.status = 200 /\ Len(last.body.order_id) > 0 /\ last.body.status = "received")
    /\ \A e \in placed :
          "status" \notin DOMAIN e.payload =>
              LET body == ListOrdersResponse(orders, Null).body
              IN  \E i \in Holding(body, e.order_id) : body[i].status = "pending"

\* C5, amended: the order is stored once, as "pending", and the default
\* listing includes it if and only if it is one of the first 50 orders stored.
C5_PlacedOrderListedAmongFirst ==
    /\ (dbUp /\ last.op = "create_order" /\ ValidOrder(last.arg)) =>
          (last.status = 200 /\ Len(last.body.order_id) > 0 /\ last.body.status = "received"
           /\ \E e \in placed : e.order_id = last.body.order_id /\ e.payload = last.arg)
    /\ \A e \in placed :
          "status" \notin DOMAIN e.payload =>
              /\ Cardinality(OrderPosition(e.order_id)) = 1
              /\ \A pos \in OrderPosition(e.order_id) :
                    LET body == ListOrdersResponse(orders, Null).body
                    IN  /\ orders[pos].status = "pending"
                        /\ pos <= 50 => \E i \in Holding(body, e.order_id) : body[i].status = "pending"
                        /\ pos > 50 => Holding(body, e.order_id) = {}

C5_Witness ==
    \E e \in placed :
        /\ "status" \notin DOMAIN e.payload
        /\ OrderPosition(e.order_id) = {50}
        /\ last.op = "list_orders" /\ last.arg = Null /\ last.status = 200
        /\ Holding(last.body, e.order_id) = {50}
        /\ Len(orders) > 50

\* the ids of the stored products of a category, in insertion order
IdsOfCategory(c) ==
    LET Test(d) == d.category = c
        found == SelectSeq(products, Test)
    IN  [i \in 1..Len(found) |-> OidStr(found[i]._id)]

\* C6: GET /api/crackers with category c returns the stored products whose
\* category is exactly c, all of them and no other; without the parameter it
\* returns all stored products.
C6_CategoryFilter ==
    (last.op = "list_crackers" /\ last.status = 200) =>
        LET ids == [i \in 1..Len(last.body) |-> last.body[i].id]
        IN  IF last.arg = Null
            THEN ids = [i \in 1..Len(products) |-> OidStr(products[i]._id)]
            ELSE /\ \A i \in 1..Len(last.body) : last.body[i].category = last.arg[1]
                 /\ ids = IdsOfCategory(last.arg[1])

StoreBacked == {"list_crackers", "create_cracker", "get_cracker", "create_order", "list_orders"}

\* C8: without a store, every store-backed request that passes validation ends
\* in a report of unavailability, never in a success, a malformed-identifier or
\* a not-found outcome; nothing is seeded; GET /test reports "Not Connected".
C8_DegradedMode ==
    ~dbUp =>
        /\ products = <<>> /\ orders = <<>>
        /\ last.op \in StoreBacked =>
              /\ last.error \notin {"none", "malformed_id", "not_found"}
              /\ last.error # "validation" => last.error = "store_unavailable"
        /\ last.op = "test_database" =>
              (last.status = 200 /\ last.body.connection_status = "Not Connected")

\* C9: the service is append-only. A step only appends to a collection; the
\* product collection grows only in POST /api/crackers (by one document) or in
\* the seeding of GET /api/crackers, the order collection only in POST
\* /api/orders (by one document); every other endpoint leaves both unchanged.
C9_AppendOnly ==
    [][/\ IsPrefix(products, products')
       /\ IsPrefix(orders, orders')
       /\ products' # products =>
             \/ last'.op = "create_cracker" /\ Len(products') = Len(products) + 1
             \/ last'.op = "list_crackers" /\ Len(products) = 0
       /\ orders' # orders =>
             (last'.op = "create_order" /\ Len(orders') = Len(orders) + 1)
       /\ last'.op \in {"get_cracker", "list_orders", "get_schema", "test_database",
                        "read_root", "hello"} =>
             (products' = products /\ orders' = orders)]_vars

C9_Witness ==
    /\ Len(products) > 4
    /\ Len(orders) > 0
    /\ last.op = "get_cracker" /\ last.status = 200

\* no worker is between its reading of the count and its last insert
Quiescent == \A w \in Workers : pc[w].at # "seed"

\* the number of stored copies of the k-th sample
Copies(k) == Cardinality({i \in 1..Len(products) : WithoutKey(products[i], "_id") = samples[k]})

\* C10: seeding is a count followed by inserts. Every request that reads a
\* count of 0 inserts the four samples, also when another request has read 0
\* and is inserting, so each sample is stored once per such request (twice
\* when two requests race); when no request reads the count while another is
\* inserting, the collection holds exactly 4 products after seeding.
C10_SeedingRace ==
    /\ \A w \in Workers : pc[w].at = "seed" => cnt[w] = 0
    /\ Quiescent =>
          /\ \A k \in 1..4 : Copies(k) = seedRuns
          /\ Len(products) = 4 * seedRuns
          /\ (dbUp /\ \E w \in Workers : pc[w].at \in {"find", "done"}) => seedRuns >= 1
          /\ ~overlap => seedRuns <= 1
          /\ seedRuns > 1 => overlap

C10_Witness ==
    /\ \A w \in Workers : pc[w].at = "done"
    /\ Len(products) = 8
    /\ \A k \in 1..4 : Copies(k) = 2
    /\ seedRuns = 2
====
